---- MODULE Spec2Model ----
(***************************************************************************)
(* Ariadne: the Knot/Thread exploration engine (src/Ariadne.py) and the    *)
(* request handlers that drive one AriadneBackend (src/ariadneServer.py).  *)
(*                                                                         *)
(* Python objects are modelled as heap cells: a Knot or Thread is an       *)
(* address (a positive integer) into knotHeap / threadHeap, so that two    *)
(* references to the same object alias each other exactly as in the code.  *)
(***************************************************************************)
EXTENDS Integers, Sequences, FiniteSets, TLC

\* ------------------------------------------------------------------ bounds
\* followThread and run are accepted while knotCounter is below this
MaxKnotCounter == 3
\* updateBestThreads is accepted while threadCounter is below this
MaxThreadCounter == 5

\* the same two bounds for the configured sessions
MaxConfiguredKnotCounter == 3

MaxConfiguredThreadCounter == 3

\* the same two bounds for the long walk, which hands out one Thread id per
\* getBestThreads: three rounds of getBestThreads and followThread fit
MaxWalkKnotCounter == 4

MaxWalkThreadCounter == 3

\* the same two bounds for the sessions that start at any recording
MaxStrategiesKnotCounter == 2

MaxStrategiesThreadCounter == 2

\* the same two bounds for the sessions restricted to groups with members in
\* common
MaxGroupsOnlyKnotCounter == 2

MaxGroupsOnlyThreadCounter == 2

\* the largest possibleThreadsPerThreadType and rankedThreadsPerThreadType a
\* backend is constructed with
MaxPossibleThreads == 2

MaxRankedThreads == 2

\* --------------------------------------------------------- Python values
\* Python's None, for a reference to a Knot or a Thread (addresses start at 1)
None == 0
\* Python's None, for a reference to a database row (Artist, Event, Recording)
NoRow == "None"
\* Knot.__init__'s default knotID
UnassignedID == -1
\* queryDB's select = 'ALL' (an integer select is a row limit)
ALL == -1

\* ------------------------------------------------------ sequence helpers
RECURSIVE Flatten(_)
Flatten(ss) ==
    IF ss = <<>> THEN <<>> ELSE Head(ss) \o Flatten(Tail(ss))

Range(s) == { s[i] : i \in 1..Len(s) }

Contains(s, x) == \E i \in 1..Len(s) : s[i] = x

\* all orderings of a finite set
RECURSIVE Perms(_)
Perms(S) ==
    IF S = {} THEN { <<>> }
    ELSE UNION { { <<x>> \o p : p \in Perms(S \ {x}) } : x \in S }

\* ------------------------------------------------ the metadata database
\* rows of the recording table, in query order; a recording's gid is its name.
\* R1..R6 are the recordings around the default recording; R7..R9 belong to
\* artists that no link connects to those of R1..R6.
RecordingTable == <<"R1", "R2", "R3", "R4", "R5", "R6", "R7", "R8", "R9">>

\* artist credits of each recording, in credit order
ArtistCredit(rec) ==
    CASE rec = "R1" -> <<"G1">>
      [] rec = "R2" -> <<"G2">>
      [] rec = "R3" -> <<"P1">>
      [] rec = "R4" -> <<"AL">>
      [] rec = "R5" -> <<"G1", "P1">>
      [] rec = "R6" -> <<"G1">>
      [] rec = "R7" -> <<"G3", "G4">>
      [] rec = "R8" -> <<"A2">>
      [] rec = "R9" -> <<"G5">>
      [] OTHER -> <<>>

\* artist.type.name
ArtistTypeName(artist) ==
    CASE artist \in {"G1", "G2", "G3", "G4", "G5"} -> "Group"
      [] artist \in {"P1", "AL", "P2"} -> "Person"
      [] OTHER -> "Other"

\* 'member of band' links <<entity0 (member), entity1 (group)>>
\* P1 is a member of G1 and G2 under their own name; P2 is a member of G3
\* and G4 under the name A2 they perform as
MemberOfBandLinks ==
    << <<"P1", "G1">>, <<"P1", "G2">>, <<"A2", "G3">>, <<"A2", "G4">> >>

\* 'is person' links <<entity0 (person), entity1 (act the person performs as)>>
IsPersonLinks == << <<"P1", "AL">>, <<"P2", "A2">> >>

\* artist-event links <<entity0 (artist), entity1 (event)>>
ArtistEventLinks ==
    << <<"G1", "Stage">>, <<"G2", "Stage">>,
       <<"G3", "Stage2">>, <<"G4", "Stage2">>, <<"G5", "Stage2">>,
       <<"A2", "Fest2">> >>

\* event.type.name
EventTypeName(event) ==
    CASE event \in {"Stage", "Fest", "Stage2", "Fest2"} -> "Festival"
      [] OTHER -> "Other"

\* event-event 'part of' links <<entity0 (enclosing event), entity1 (part)>>:
\* Fest > Stage, and Fest2 > Day2 > Stage2
EventEventLinks ==
    << <<"Fest", "Stage">>, <<"Day2", "Stage2">>, <<"Fest2", "Day2">> >>

\* the recording gid that inputRecording substitutes for 'default'
defaultRecID == "R1"

\* ------------------------------------------------------------- AriadneDB
queryDB(rows, select) ==
    IF select = ALL THEN rows
    ELSE SubSeq(rows, 1, IF select < Len(rows) THEN select ELSE Len(rows))

queryFirst(rows) == IF rows = <<>> THEN NoRow ELSE rows[1]

isGroup(artist) == ArtistTypeName(artist) = "Group"

isPerson(artist) == ArtistTypeName(artist) = "Person"

getRecordingByGID(gid) ==
    queryFirst(SelectSeq(RecordingTable, LAMBDA r : r = gid))

getArtistsByRecording(rec, select) == queryDB(ArtistCredit(rec), select)

\* variant of getRecordingsByArtist: the query without the artist filter
getRecordingsByArtist_unfiltered(artist, select) ==
    queryDB(RecordingTable, select)

getRecordingsByArtist(artist, select) ==
    queryDB(SelectSeq(RecordingTable,
                      LAMBDA r : Contains(ArtistCredit(r), artist)), select)

artistHasRecordings(artist) ==
    queryFirst(SelectSeq(RecordingTable,
                         LAMBDA r : Contains(ArtistCredit(r), artist))) # NoRow

getMembersByGroup(group, select) ==
    LET results == queryDB(SelectSeq(MemberOfBandLinks,
                                     LAMBDA l : l[2] = group), select)
    IN  [i \in 1..Len(results) |-> results[i][1]]

getGroupsByMember(member, select) ==
    LET results == queryDB(SelectSeq(MemberOfBandLinks,
                                     LAMBDA l : l[1] = member), select)
    IN  [i \in 1..Len(results) |-> results[i][2]]

\* variant of getGroupsWithMembersInCommon: fromGroup itself is kept
getGroupsWithMembersInCommon_keepSame(fromGroup) ==
    LET groupMembers == getMembersByGroup(fromGroup, ALL)
        pairsOf(member) ==
            LET membersGroups == getGroupsByMember(member, ALL)
            IN  [i \in 1..Len(membersGroups) |->
                    [member |-> member, group |-> membersGroups[i]]]
    IN  Flatten([i \in 1..Len(groupMembers) |-> pairsOf(groupMembers[i])])

getGroupsWithMembersInCommon(fromGroup) ==
    LET groupMembers == getMembersByGroup(fromGroup, ALL)
        pairsOf(member) ==
            LET membersGroups ==
                    SelectSeq(getGroupsByMember(member, ALL),
                              LAMBDA g : g # fromGroup)
            IN  [i \in 1..Len(membersGroups) |->
                    [member |-> member, group |-> membersGroups[i]]]
    IN  Flatten([i \in 1..Len(groupMembers) |-> pairsOf(groupMembers[i])])

getArtistsPersonPerformsAs(person, select) ==
    LET results == queryDB(SelectSeq(IsPersonLinks,
                                     LAMBDA l : l[1] = person), select)
    IN  [i \in 1..Len(results) |-> results[i][2]]

getPersonBySinglePersonAct(act) ==
    LET results == SelectSeq(IsPersonLinks, LAMBDA l : l[2] = act)
    IN  IF results = <<>> THEN NoRow ELSE results[1][1]

isSinglePersonAct(artist) == getPersonBySinglePersonAct(artist) # NoRow

getMembersSoloActsByGroup(fromGroup) ==
    LET groupMembers == getMembersByGroup(fromGroup, ALL)
        actsOf(member) ==
            LET memberPerformsAs == getArtistsPersonPerformsAs(member, ALL)
            IN  [i \in 1..Len(memberPerformsAs) |->
                    [member |-> member, performsAs |-> memberPerformsAs[i]]]
                \o (IF artistHasRecordings(member)
                    THEN << [member |-> member, performsAs |-> member] >>
                    ELSE <<>>)
    IN  Flatten([i \in 1..Len(groupMembers) |-> actsOf(groupMembers[i])])

getEventsByArtist(fromArtist, select, eventTypeNames) ==
    LET artistEventLinks == queryDB(SelectSeq(ArtistEventLinks,
                                     LAMBDA l : l[1] = fromArtist), select)
        ofType(name) ==
            LET ls == SelectSeq(artistEventLinks,
                                LAMBDA l : EventTypeName(l[2]) = name)
            IN  [i \in 1..Len(ls) |-> ls[i][2]]
    IN  Flatten([i \in 1..Len(eventTypeNames) |-> ofType(eventTypeNames[i])])

getArtistsByEvent(fromEvent, select) ==
    LET artistEventLinks == queryDB(SelectSeq(ArtistEventLinks,
                                     LAMBDA l : l[2] = fromEvent), select)
    IN  [i \in 1..Len(artistEventLinks) |-> artistEventLinks[i][1]]

getEventByPart(fromEvent) ==
    LET link == SelectSeq(EventEventLinks, LAMBDA l : l[2] = fromEvent)
    IN  IF link = <<>> THEN NoRow ELSE link[1][1]

\* variant of getLargestEventByPart: one step up, without the loop
getLargestEventByPart_oneLevel(fromEvent) ==
    LET largerEvent == getEventByPart(fromEvent)
    IN  IF largerEvent = NoRow THEN fromEvent ELSE largerEvent

RECURSIVE getLargestEventByPart(_)
getLargestEventByPart(fromEvent) ==
    LET largerEvent == getEventByPart(fromEvent)
    IN  IF largerEvent = NoRow THEN fromEvent
        ELSE getLargestEventByPart(largerEvent)

\* the number of getEventByPart calls that getLargestEventByPart(fromEvent)
\* makes: one before the loop, and one per iteration that finds a larger
\* event
RECURSIVE getLargestEventByPart_lookups(_)
getLargestEventByPart_lookups(fromEvent) ==
    LET largerEvent == getEventByPart(fromEvent)
    IN  IF largerEvent = NoRow THEN 1
        ELSE 1 + getLargestEventByPart_lookups(largerEvent)

\* ------------------------------------------------------- Knot and Thread
Knot(r, cArtists, iThread, pKnot, knotID) ==
    [rec |-> r, creditedArtists |-> cArtists, inThread |-> iThread,
     prevKnot |-> pKnot, id |-> knotID]

\* Thread.__init__, with every subclass's extra attributes (NoRow where the
\* subclass does not have the attribute); id is set by assignThreadIDs
Thread(fKnot, tKnot) ==
    [type |-> "Thread", fromKnot |-> fKnot, toKnot |-> tKnot,
     id |-> UnassignedID,
     artist |-> NoRow, fromGroup |-> NoRow, toGroup |-> NoRow,
     memberInCommon |-> NoRow, memberPerformsAs |-> NoRow,
     fromPerson |-> NoRow, fromArtist |-> NoRow, toArtist |-> NoRow,
     festival |-> NoRow]

ThreadBySameArtist(fKnot, tKnot, artist) ==
    [Thread(fKnot, tKnot) EXCEPT !.type = "ThreadBySameArtist",
                                 !.artist = artist]

ThreadByGroupWithMembersInCommon(fKnot, tKnot, fGroup, tGroup, member) ==
    [Thread(fKnot, tKnot) EXCEPT !.type = "ThreadByGroupWithMembersInCommon",
                                 !.fromGroup = fGroup, !.toGroup = tGroup,
                                 !.memberInCommon = member]

ThreadByGroupMemberSoloAct(fKnot, tKnot, fGroup, member, mPerformsAs) ==
    [Thread(fKnot, tKnot) EXCEPT !.type = "ThreadByGroupMemberSoloAct",
                                 !.fromGroup = fGroup,
                                 !.memberInCommon = member,
                                 !.memberPerformsAs = mPerformsAs]

ThreadByGroupPersonIsMemberOf(fKnot, tKnot, fPerson, tGroup, mPerformsAs) ==
    [Thread(fKnot, tKnot) EXCEPT !.type = "ThreadByGroupPersonIsMemberOf",
                                 !.fromPerson = fPerson, !.toGroup = tGroup,
                                 !.memberPerformsAs = mPerformsAs]

ThreadByArtistWithFestivalInCommon(fKnot, tKnot, fArtist, tArtist, festival) ==
    [Thread(fKnot, tKnot) EXCEPT !.type = "ThreadByArtistWithFestivalInCommon",
                                 !.fromArtist = fArtist, !.toArtist = tArtist,
                                 !.festival = festival]

\* Thread.__subclasses__(), in class definition order
ThreadSubclasses ==
    << "ThreadBySameArtist", "ThreadByGroupWithMembersInCommon",
       "ThreadByGroupMemberSoloAct", "ThreadByGroupPersonIsMemberOf",
       "ThreadByArtistWithFestivalInCommon" >>

\* ----------------------------------------------------------- makeThreads
\* A makeThreads call creates one Thread and one Knot per recording.  The
\* objects created for toRecs[i] get the address base + i; each result cell
\* is [addr, thread, toKnot], the two new objects and their address.
\* fromKnot is the address of the Knot the threads start from.
\* variant of makeThreads_SameArtist: the new Knots are numbered when they
\* are created
makeThreads_SameArtist_numbered(fromKnot, toRecs, fromArtist, base) ==
    [i \in 1..Len(toRecs) |->
        LET a == base + i
            toCreditedArtists == getArtistsByRecording(toRecs[i], ALL)
        IN  [addr |-> a,
             thread |-> ThreadBySameArtist(fromKnot, a, fromArtist),
             toKnot |-> Knot(toRecs[i], toCreditedArtists, a, fromKnot, a)]]

makeThreads_SameArtist(fromKnot, toRecs, fromArtist, base) ==
    [i \in 1..Len(toRecs) |->
        LET a == base + i
            toCreditedArtists == getArtistsByRecording(toRecs[i], ALL)
        IN  [addr |-> a,
             thread |-> ThreadBySameArtist(fromKnot, a, fromArtist),
             \* toKnot.inThread = newThread
             toKnot |-> Knot(toRecs[i], toCreditedArtists, a, fromKnot,
                             UnassignedID)]]

makeThreads_GroupWithMembersInCommon(fromKnot, toRecs, fromGroup, toGroup, member, base) ==
    [i \in 1..Len(toRecs) |->
        LET a == base + i
            toCreditedArtists == getArtistsByRecording(toRecs[i], ALL)
        IN  [addr |-> a,
             thread |-> ThreadByGroupWithMembersInCommon(fromKnot, a,
                            fromGroup, toGroup, member),
             \* toKnot.inThread = newThread
             toKnot |-> Knot(toRecs[i], toCreditedArtists, a, fromKnot,
                             UnassignedID)]]

makeThreads_GroupMemberSoloAct(fromKnot, toRecs, fromGroup, member, performsAs, base) ==
    [i \in 1..Len(toRecs) |->
        LET a == base + i
            toCreditedArtists == getArtistsByRecording(toRecs[i], ALL)
        IN  [addr |-> a,
             thread |-> ThreadByGroupMemberSoloAct(fromKnot, a, fromGroup,
                            member, performsAs),
             \* toKnot.inThread = newThread
             toKnot |-> Knot(toRecs[i], toCreditedArtists, a, fromKnot,
                             UnassignedID)]]

makeThreads_GroupPersonIsMemberOf(fromKnot, toRecs, fromPerson, toGroup, mPerformsAs, base) ==
    [i \in 1..Len(toRecs) |->
        LET a == base + i
            toCreditedArtists == getArtistsByRecording(toRecs[i], ALL)
        IN  [addr |-> a,
             thread |-> ThreadByGroupPersonIsMemberOf(fromKnot, a,
                            fromPerson, toGroup, mPerformsAs),
             \* toKnot.inThread = newThread
             toKnot |-> Knot(toRecs[i], toCreditedArtists, a, fromKnot,
                             UnassignedID)]]

\* this makeThreads never assigns toKnot.inThread: the Knot keeps the
\* constructor's default, None
makeThreads_ArtistWithFestivalInCommon(fromKnot, toRecs, fArtist, tArtist, festival, base) ==
    [i \in 1..Len(toRecs) |->
        LET a == base + i
            toCreditedArtists == getArtistsByRecording(toRecs[i], ALL)
        IN  [addr |-> a,
             thread |-> ThreadByArtistWithFestivalInCommon(fromKnot, a,
                            fArtist, tArtist, festival),
             toKnot |-> Knot(toRecs[i], toCreditedArtists, None, fromKnot,
                             UnassignedID)]]

\* threads = []; for seed in seeds: threads += makeThreads(..., toRecs, ...):
\* the objects of each makeThreads call are allocated after those of the
\* calls before it.  toRecsPerCall[i] is the toRecs of the i-th call; the
\* result is the last address in use when that call starts.
RECURSIVE BaseOfCall(_, _, _)
BaseOfCall(toRecsPerCall, i, base) ==
    IF i = 1 THEN base
    ELSE BaseOfCall(toRecsPerCall, i - 1, base) + Len(toRecsPerCall[i - 1])

\* -------------------------------------------------- getAllPossibleThreads
\* fromKnot is the address of the from-Knot, k its heap cell, select the
\* number of recordings fetched per seed, base the last address in use
getAllPossibleThreads_SameArtist(fromKnot, k, recsPerCreditedArtist, base) ==
    LET seeds == k.creditedArtists
        toRecs == [i \in 1..Len(seeds) |->
                      getRecordingsByArtist(seeds[i], recsPerCreditedArtist)]
    IN  Flatten([i \in 1..Len(seeds) |->
                    makeThreads_SameArtist(fromKnot, toRecs[i], seeds[i],
                                           BaseOfCall(toRecs, i, base))])

getAllPossibleThreads_GroupWithMembersInCommon(fromKnot, k, recsPerMemberGroupPair, base) ==
    LET fromGroups == SelectSeq(k.creditedArtists, isGroup)
        pairsOf(fromGroup) ==
            LET memberGroupPairs == getGroupsWithMembersInCommon(fromGroup)
            IN  [i \in 1..Len(memberGroupPairs) |->
                    [fromGroup |-> fromGroup, mgPair |-> memberGroupPairs[i]]]
        seeds == Flatten([i \in 1..Len(fromGroups) |-> pairsOf(fromGroups[i])])
        toRecs == [i \in 1..Len(seeds) |->
                      getRecordingsByArtist(seeds[i].mgPair.group,
                                            recsPerMemberGroupPair)]
    IN  Flatten([i \in 1..Len(seeds) |->
                    makeThreads_GroupWithMembersInCommon(fromKnot, toRecs[i],
                        seeds[i].fromGroup, seeds[i].mgPair.group,
                        seeds[i].mgPair.member, BaseOfCall(toRecs, i, base))])

getAllPossibleThreads_GroupMemberSoloAct(fromKnot, k, recsPerMemberActPair, base) ==
    LET fromGroups == SelectSeq(k.creditedArtists, isGroup)
        actsOf(fromGroup) ==
            LET memberActs == getMembersSoloActsByGroup(fromGroup)
            IN  [i \in 1..Len(memberActs) |->
                    [fromGroup |-> fromGroup, memberAct |-> memberActs[i]]]
        seeds == Flatten([i \in 1..Len(fromGroups) |-> actsOf(fromGroups[i])])
        toRecs == [i \in 1..Len(seeds) |->
                      getRecordingsByArtist(seeds[i].memberAct.performsAs,
                                            recsPerMemberActPair)]
    IN  Flatten([i \in 1..Len(seeds) |->
                    makeThreads_GroupMemberSoloAct(fromKnot, toRecs[i],
                        seeds[i].fromGroup, seeds[i].memberAct.member,
                        seeds[i].memberAct.performsAs,
                        BaseOfCall(toRecs, i, base))])

\* variant of getAllPossibleThreads_GroupPersonIsMemberOf: for a
\* single-person act only the groups of the act itself are fetched, not those
\* of the person behind it
getAllPossibleThreads_GroupPersonIsMemberOf_actOnly(fromKnot, k, recsPerPersonGroupPair, base) ==
    LET fromArtists == SelectSeq(k.creditedArtists,
                           LAMBDA a : isPerson(a) \/ isSinglePersonAct(a))
        groupsOf(fromArtist) ==
            LET single == isSinglePersonAct(fromArtist)
                mPerformsAs == IF single THEN fromArtist ELSE NoRow
                fromPerson == IF single
                              THEN getPersonBySinglePersonAct(fromArtist)
                              ELSE fromArtist
                toGroups == IF single
                            THEN getGroupsByMember(mPerformsAs, ALL)
                            ELSE getGroupsByMember(fromPerson, ALL)
            IN  [i \in 1..Len(toGroups) |->
                    [fromPerson |-> fromPerson, toGroup |-> toGroups[i],
                     mPerformsAs |-> mPerformsAs]]
        seeds == Flatten([i \in 1..Len(fromArtists) |->
                             groupsOf(fromArtists[i])])
        toRecs == [i \in 1..Len(seeds) |->
                      getRecordingsByArtist(seeds[i].toGroup,
                                            recsPerPersonGroupPair)]
    IN  Flatten([i \in 1..Len(seeds) |->
                    makeThreads_GroupPersonIsMemberOf(fromKnot, toRecs[i],
                        seeds[i].fromPerson, seeds[i].toGroup,
                        seeds[i].mPerformsAs, BaseOfCall(toRecs, i, base))])

getAllPossibleThreads_GroupPersonIsMemberOf(fromKnot, k, recsPerPersonGroupPair, base) ==
    LET fromArtists == SelectSeq(k.creditedArtists,
                           LAMBDA a : isPerson(a) \/ isSinglePersonAct(a))
        groupsOf(fromArtist) ==
            LET single == isSinglePersonAct(fromArtist)
                mPerformsAs == IF single THEN fromArtist ELSE NoRow
                fromPerson == IF single
                              THEN getPersonBySinglePersonAct(fromArtist)
                              ELSE fromArtist
                toGroups == (IF single
                             THEN getGroupsByMember(mPerformsAs, ALL)
                             ELSE <<>>)
                            \o getGroupsByMember(fromPerson, ALL)
            IN  [i \in 1..Len(toGroups) |->
                    [fromPerson |-> fromPerson, toGroup |-> toGroups[i],
                     mPerformsAs |-> mPerformsAs]]
        seeds == Flatten([i \in 1..Len(fromArtists) |->
                             groupsOf(fromArtists[i])])
        toRecs == [i \in 1..Len(seeds) |->
                      getRecordingsByArtist(seeds[i].toGroup,
                                            recsPerPersonGroupPair)]
    IN  Flatten([i \in 1..Len(seeds) |->
                    makeThreads_GroupPersonIsMemberOf(fromKnot, toRecs[i],
                        seeds[i].fromPerson, seeds[i].toGroup,
                        seeds[i].mPerformsAs, BaseOfCall(toRecs, i, base))])

getAllPossibleThreads_ArtistWithFestivalInCommon(fromKnot, k, recsPerArtist, base) ==
    LET artistsOf(fromArtist, festival) ==
            LET majorFestival == getLargestEventByPart(festival)
                thisFestivalArtists ==
                    SelectSeq(getArtistsByEvent(festival, ALL),
                              LAMBDA a : a # fromArtist)
            IN  [i \in 1..Len(thisFestivalArtists) |->
                    [fromArtist |-> fromArtist,
                     festivalArtist |-> thisFestivalArtists[i],
                     majorFestival |-> majorFestival]]
        festivalsOf(fromArtist) ==
            LET thisArtistFestivals ==
                    getEventsByArtist(fromArtist, ALL, <<"Festival">>)
            IN  Flatten([i \in 1..Len(thisArtistFestivals) |->
                            artistsOf(fromArtist, thisArtistFestivals[i])])
        seeds == Flatten([i \in 1..Len(k.creditedArtists) |->
                             festivalsOf(k.creditedArtists[i])])
        toRecs == [i \in 1..Len(seeds) |->
                      getRecordingsByArtist(seeds[i].festivalArtist,
                                            recsPerArtist)]
    IN  Flatten([i \in 1..Len(seeds) |->
                    makeThreads_ArtistWithFestivalInCommon(fromKnot, toRecs[i],
                        seeds[i].fromArtist, seeds[i].festivalArtist,
                        seeds[i].majorFestival, BaseOfCall(toRecs, i, base))])

\* ThreadType.getAllPossibleThreads(db, fromKnot, select)
ThreadType_getAllPossibleThreads(ThreadType, fromKnot, k, select, base) ==
    CASE ThreadType = "ThreadBySameArtist" ->
            getAllPossibleThreads_SameArtist(fromKnot, k, select, base)
      [] ThreadType = "ThreadByGroupWithMembersInCommon" ->
            getAllPossibleThreads_GroupWithMembersInCommon(fromKnot, k,
                                                           select, base)
      [] ThreadType = "ThreadByGroupMemberSoloAct" ->
            getAllPossibleThreads_GroupMemberSoloAct(fromKnot, k, select, base)
      [] ThreadType = "ThreadByGroupPersonIsMemberOf" ->
            getAllPossibleThreads_GroupPersonIsMemberOf(fromKnot, k, select,
                                                        base)
      [] ThreadType = "ThreadByArtistWithFestivalInCommon" ->
            getAllPossibleThreads_ArtistWithFestivalInCommon(fromKnot, k,
                                                             select, base)

\* ------------------------------------------------------------ isApplicable
\* variant of ThreadType_isApplicable: ThreadByGroupPersonIsMemberOf applies
\* to Persons only, not to single-person acts
ThreadType_isApplicable_personsOnly(ThreadType, k) ==
    CASE ThreadType = "ThreadBySameArtist" -> TRUE
      [] ThreadType = "ThreadByGroupWithMembersInCommon" ->
            \E i \in 1..Len(k.creditedArtists) : isGroup(k.creditedArtists[i])
      [] ThreadType = "ThreadByGroupMemberSoloAct" ->
            \E i \in 1..Len(k.creditedArtists) : isGroup(k.creditedArtists[i])
      [] ThreadType = "ThreadByGroupPersonIsMemberOf" ->
            \E i \in 1..Len(k.creditedArtists) :
                isPerson(k.creditedArtists[i])
      [] ThreadType = "ThreadByArtistWithFestivalInCommon" -> TRUE

\* variant of ThreadType_isApplicable: ThreadByGroupWithMembersInCommon
\* applies to a Knot with any credited artist, Group or not
ThreadType_isApplicable_anyArtist(ThreadType, k) ==
    CASE ThreadType = "ThreadBySameArtist" -> TRUE
      [] ThreadType = "ThreadByGroupWithMembersInCommon" ->
            k.creditedArtists # <<>>
      [] ThreadType = "ThreadByGroupMemberSoloAct" ->
            \E i \in 1..Len(k.creditedArtists) : isGroup(k.creditedArtists[i])
      [] ThreadType = "ThreadByGroupPersonIsMemberOf" ->
            \E i \in 1..Len(k.creditedArtists) :
                \/ isPerson(k.creditedArtists[i])
                \/ isSinglePersonAct(k.creditedArtists[i])
      [] ThreadType = "ThreadByArtistWithFestivalInCommon" -> TRUE

ThreadType_isApplicable(ThreadType, k) ==
    CASE ThreadType = "ThreadBySameArtist" -> TRUE
      [] ThreadType = "ThreadByGroupWithMembersInCommon" ->
            \E i \in 1..Len(k.creditedArtists) : isGroup(k.creditedArtists[i])
      [] ThreadType = "ThreadByGroupMemberSoloAct" ->
            \E i \in 1..Len(k.creditedArtists) : isGroup(k.creditedArtists[i])
      [] ThreadType = "ThreadByGroupPersonIsMemberOf" ->
            \E i \in 1..Len(k.creditedArtists) :
                \/ isPerson(k.creditedArtists[i])
                \/ isSinglePersonAct(k.creditedArtists[i])
      [] ThreadType = "ThreadByArtistWithFestivalInCommon" -> TRUE

\* -------------------------------------------------------------------- rank
\* np.random.choice(a, size) draws size elements of a with replacement: every
\* sequence of size elements of a is a possible result
\* variant of RandomChoice: one draw more than asked for
RandomChoice_oneMore(a, size) ==
    { [i \in 1..(size + 1) |-> a[f[i]]] : f \in [1..(size + 1) -> 1..Len(a)] }

RandomChoice(a, size) ==
    { [i \in 1..size |-> a[f[i]]] : f \in [1..size -> 1..Len(a)] }

\* ThreadBySameArtist.rank: nResults draws per unique artist.  np.unique
\* sorts the Artist objects by Python's default object order, which is not
\* determined by the program: every order of the artists is possible.
RECURSIVE rankPerArtist(_, _, _)
rankPerArtist(uniqueArtists, threads, nResults) ==
    IF uniqueArtists = <<>> THEN { <<>> }
    ELSE LET thisArtistThreads ==
                 SelectSeq(threads,
                           LAMBDA t : t.thread.artist = Head(uniqueArtists))
         IN  { c \o rest :
                 c \in RandomChoice(thisArtistThreads, nResults),
                 rest \in rankPerArtist(Tail(uniqueArtists), threads,
                                        nResults) }

rank_SameArtist(threads, nResults) ==
    UNION { rankPerArtist(uniqueArtists, threads, nResults) :
              uniqueArtists \in Perms({ t.thread.artist : t \in Range(threads) }) }

\* ThreadType.rank(threads, nResults): the set of lists it can return
ThreadType_rank(ThreadType, threads, nResults) ==
    IF ThreadType = "ThreadBySameArtist"
    THEN rank_SameArtist(threads, nResults)
    ELSE RandomChoice(threads, nResults)

\* ------------------------------------------------------- AriadneController
\* getApplicableThreadTypes(fromKnot), k the heap cell of fromKnot
getApplicableThreadTypes(allowedThreads, k) ==
    SelectSeq(allowedThreads, LAMBDA tType : ThreadType_isApplicable(tType, k))

\* AriadneController.getAllPossibleThreads: [{'type':, 'threads':}, ...]
RECURSIVE getAllPossibleThreads(_, _, _, _, _)
getAllPossibleThreads(applicableThreadTypes, select, fromKnot, k, base) ==
    IF applicableThreadTypes = <<>> THEN <<>>
    ELSE LET ThreadType == Head(applicableThreadTypes)
             thisTypeThreads ==
                 ThreadType_getAllPossibleThreads(ThreadType, fromKnot, k,
                                                  select, base)
         IN  << [type |-> ThreadType, threads |-> thisTypeThreads] >>
             \o getAllPossibleThreads(Tail(applicableThreadTypes), select,
                                      fromKnot, k,
                                      base + Len(thisTypeThreads))

\* variant of rank: the loop ends at the first type without Threads
RECURSIVE rank_stopAtEmpty(_, _)
rank_stopAtEmpty(threads, nThreadsPerType) ==
    IF threads = <<>> THEN { <<>> }
    ELSE LET thisType == Head(threads).type
             thisTypeThreads == Head(threads).threads
             rest == rank_stopAtEmpty(Tail(threads), nThreadsPerType)
         IN  IF thisTypeThreads # <<>>
             THEN { r \o q :
                      r \in ThreadType_rank(thisType, thisTypeThreads,
                                            nThreadsPerType),
                      q \in rest }
             ELSE { <<>> }

\* AriadneController.rank: the set of lists it can return
RECURSIVE rank(_, _)
rank(threads, nThreadsPerType) ==
    IF threads = <<>> THEN { <<>> }
    ELSE LET thisType == Head(threads).type
             thisTypeThreads == Head(threads).threads
             rest == rank(Tail(threads), nThreadsPerType)
         IN  IF thisTypeThreads # <<>>
             THEN { r \o q :
                      r \in ThreadType_rank(thisType, thisTypeThreads,
                                            nThreadsPerType),
                      q \in rest }
             ELSE rest

\* ------------------------------------------------------------------- state
VARIABLES
    \* the server's global: whether `backend` holds an AriadneBackend
    haveBackend,
    \* AriadneBackend attributes
    possibleThreadsPerThreadType, rankedThreadsPerThreadType,
    allowedThreadTypes, haveStartingRec, threadCounter, knotCounter,
    \* AriadneBackend.bestThreads (a list of Thread addresses); the attribute
    \* does not exist before the first updateBestThreads
    haveBestThreads, bestThreads,
    \* AriadneBackend.ctrl; the attribute does not exist before the first run
    haveCtrl,
    \* AriadneController attributes (Knot and Thread addresses)
    startKnot, currentKnot, knots, threads,
    \* the Python heap: address -> Knot cell, address -> Thread cell, and
    \* the last address handed out
    knotHeap, threadHeap, nextAddr,
    \* the last request and its response: [op, caller, arg, status, ids]
    response,
    \* history: the callers that have requested '/' (init)
    inited,
    \* history: the Thread ids returned by getBestThreads calls before the
    \* latest one, on this backend
    staleThreadIDs,
    \* history: every <<id, address>> for which this backend (or its
    \* controllers) stored id into the Knot / Thread at address
    knotIDLog, threadIDLog

backendVars ==
    << possibleThreadsPerThreadType, rankedThreadsPerThreadType,
       allowedThreadTypes, haveStartingRec, threadCounter, knotCounter,
       haveBestThreads, bestThreads >>

ctrlVars == << haveCtrl, startKnot, currentKnot, knots, threads >>

heapVars == << knotHeap, threadHeap, nextAddr >>

historyVars == << staleThreadIDs, knotIDLog, threadIDLog >>

vars ==
    << haveBackend, backendVars, ctrlVars, heapVars, response, inited,
       historyVars >>

\* the empty heap
EmptyHeap == [a \in {} |-> None]

\* heap with the cells of `cells` (a sequence of [addr, thread, toKnot]) added
StoreKnots(heap, cells) ==
    [a \in DOMAIN heap \cup { c.addr : c \in Range(cells) } |->
        IF a \in DOMAIN heap THEN heap[a]
        ELSE (CHOOSE c \in Range(cells) : c.addr = a).toKnot]

StoreThreads(heap, cells, ids) ==
    [a \in DOMAIN heap \cup { c.addr : c \in Range(cells) } |->
        IF a \in DOMAIN heap THEN heap[a]
        ELSE [(CHOOSE c \in Range(cells) : c.addr = a).thread
                 EXCEPT !.id = ids[a]]]

\* ---------------------------------------------------------- serialization
\* Knot.serialize()['id'] of every visited Knot, as getVisitedKnots returns
listVisitedKnots == [i \in 1..Len(knots) |-> knotHeap[knots[i]].id]

\* Thread.serialize()['id'] of every Thread in bestThreads
serializedThreadIDs == [i \in 1..Len(bestThreads) |-> threadHeap[bestThreads[i]].id]

Response(op, caller, arg, status, ids) ==
    [op |-> op, caller |-> caller, arg |-> arg, status |-> status, ids |-> ids]

\* ----------------------------------------------------------- construction
\* AriadneBackend.__init__(possibleThreadsPerThreadType,
\* rankedThreadsPerThreadType, allowedThreadTypes)
AriadneBackend_initWith(possible, ranked, allowed) ==
    /\ possibleThreadsPerThreadType = possible
    /\ rankedThreadsPerThreadType = ranked
    /\ allowedThreadTypes = allowed
    /\ haveStartingRec = FALSE
    /\ threadCounter = 0
    /\ knotCounter = 0
    /\ haveBestThreads = FALSE
    /\ bestThreads = <<>>
    /\ haveCtrl = FALSE
    /\ startKnot = None
    /\ currentKnot = None
    /\ knots = <<>>
    /\ threads = <<>>
    /\ knotHeap = EmptyHeap
    /\ threadHeap = EmptyHeap
    /\ nextAddr = 0
    /\ staleThreadIDs = {}
    /\ knotIDLog = {}
    /\ threadIDLog = {}

\* AriadneBackend.__init__ with the server's arguments (all defaults)
AriadneBackend_init == AriadneBackend_initWith(1, 1, ThreadSubclasses)

\* --------------------------------------------------------- AriadneBackend
\* variant of inputRecording: a gid of no recording falls back to the
\* default recording
inputRecording_fallback(recID) ==
    IF getRecordingByGID(recID) = NoRow THEN getRecordingByGID(defaultRecID)
    ELSE getRecordingByGID(recID)

\* inputRecording(recID): the Recording row, or NoRow where the code raises
\* Exception('Wrong MBID')
inputRecording(recID) ==
    getRecordingByGID(IF recID = "default" THEN defaultRecID ELSE recID)

\* variant of AriadneController_startKnot: the start Knot built without knotID=0
AriadneController_startKnot_noID(sRec) ==
    Knot(sRec, getArtistsByRecording(sRec, ALL), None, None, UnassignedID)

\* the start Knot that AriadneController.__init__ builds for sRec
AriadneController_startKnot(sRec) ==
    Knot(sRec, getArtistsByRecording(sRec, ALL), None, None, 0)

\* run(inputRecID), when inputRecording has returned startingRec: a new
\* AriadneController replaces self.ctrl, and knotCounter += 1
run(startingRec) ==
    LET a == nextAddr + 1
    IN  /\ knotHeap' = [x \in DOMAIN knotHeap \cup {a} |->
                           IF x = a THEN AriadneController_startKnot(startingRec)
                           ELSE knotHeap[x]]
        /\ nextAddr' = a
        /\ haveCtrl' = TRUE
        /\ startKnot' = a
        /\ currentKnot' = a
        /\ threads' = <<>>
        /\ knots' = <<a>>
        /\ knotCounter' = knotCounter + 1
        /\ knotIDLog' = knotIDLog \cup { <<knotHeap'[a].id, a>> }
        /\ UNCHANGED << threadHeap, threadCounter, haveBestThreads,
                        bestThreads, threadIDLog, staleThreadIDs,
                        possibleThreadsPerThreadType,
                        rankedThreadsPerThreadType, allowedThreadTypes >>

\* variant of assignThreadIDs: ids numbered from 1 in every call, not from
\* self.threadCounter
assignThreadIDs_perCall(ts, counter) ==
    [a \in Range(ts) |->
        CHOOSE i \in 1..Len(ts) :
            /\ ts[i] = a
            /\ \A j \in (i + 1)..Len(ts) : ts[j] # a]

\* assignThreadIDs(threads), threads a list of Thread addresses: the id each
\* Thread ends up with.  The loop stores counter + i into threads[i], so a
\* Thread that occurs several times in the list keeps the last id stored.
assignThreadIDs(ts, counter) ==
    [a \in Range(ts) |->
        counter + (CHOOSE i \in 1..Len(ts) :
                      /\ ts[i] = a
                      /\ \A j \in (i + 1)..Len(ts) : ts[j] # a)]

\* updateBestThreads(), from the current Knot
updateBestThreads ==
    LET fromKnot == currentKnot
        k == knotHeap[fromKnot]
        applicableThreadTypes == getApplicableThreadTypes(allowedThreadTypes, k)
        possibleThreads ==
            getAllPossibleThreads(applicableThreadTypes,
                                  possibleThreadsPerThreadType, fromKnot, k,
                                  nextAddr)
        created == Flatten([i \in 1..Len(possibleThreads) |->
                               possibleThreads[i].threads])
    IN  \E ranked \in rank(possibleThreads, rankedThreadsPerThreadType) :
            LET best == [i \in 1..Len(ranked) |-> ranked[i].addr]
                ids == assignThreadIDs(best, threadCounter)
            IN  /\ bestThreads' = best
                /\ haveBestThreads' = TRUE
                /\ threadCounter' = threadCounter + Len(best)
                /\ knotHeap' = StoreKnots(knotHeap, ranked)
                /\ threadHeap' = StoreThreads(threadHeap, ranked, ids)
                /\ nextAddr' = nextAddr + Len(created)
                /\ threadIDLog' = threadIDLog \cup
                       { <<threadCounter + i, best[i]>> : i \in 1..Len(best) }
                /\ UNCHANGED << ctrlVars, knotCounter, knotIDLog,
                                possibleThreadsPerThreadType,
                                rankedThreadsPerThreadType,
                                allowedThreadTypes >>

\* variant of findThread: the loop keeps the last Thread it looked at when
\* none matches
findThread_keepLast(threadID) ==
    IF \E i \in 1..Len(bestThreads) : threadHeap[bestThreads[i]].id = threadID
    THEN CHOOSE i \in 1..Len(bestThreads) :
            /\ threadHeap[bestThreads[i]].id = threadID
            /\ \A j \in 1..(i - 1) : threadHeap[bestThreads[j]].id # threadID
    ELSE Len(bestThreads)

\* the loop of followThread: the position in bestThreads of the first Thread
\* whose id is threadID, or 0 when haveThread stays False
findThread(threadID) ==
    IF \E i \in 1..Len(bestThreads) : threadHeap[bestThreads[i]].id = threadID
    THEN CHOOSE i \in 1..Len(bestThreads) :
            /\ threadHeap[bestThreads[i]].id = threadID
            /\ \A j \in 1..(i - 1) : threadHeap[bestThreads[j]].id # threadID
    ELSE 0

\* followThread(threadID), when the loop has found `thread` (an address)
followThread(thread) ==
    LET toKnot == threadHeap[thread].toKnot
    IN  /\ knotHeap' = [knotHeap EXCEPT ![toKnot].id = knotCounter]
        /\ threads' = Append(threads, thread)
        /\ knots' = Append(knots, toKnot)
        /\ currentKnot' = toKnot
        /\ knotCounter' = knotCounter + 1
        /\ knotIDLog' = knotIDLog \cup { <<knotCounter, toKnot>> }
        /\ UNCHANGED << haveCtrl, startKnot, threadHeap, nextAddr,
                        threadCounter, haveBestThreads, bestThreads,
                        threadIDLog, staleThreadIDs,
                        possibleThreadsPerThreadType,
                        rankedThreadsPerThreadType, allowedThreadTypes >>

\* the loop of moveCurrentKnot: the position in ctrl.knots of the first Knot
\* whose id is knotID, or 0 when haveKnot stays False
findKnot(knotID) ==
    IF \E i \in 1..Len(knots) : knotHeap[knots[i]].id = knotID
    THEN CHOOSE i \in 1..Len(knots) :
            /\ knotHeap[knots[i]].id = knotID
            /\ \A j \in 1..(i - 1) : knotHeap[knots[j]].id # knotID
    ELSE 0

\* ------------------------------------------------------ request handlers
\* the callers of the single-session specification and of the server
OneCaller == {"c1"}
TwoCallers == {"c1", "c2"}

\* MBIDs a caller may post: 'default' and a gid of no recording
StartRefs == {"default", "no-such-gid"}

\* Thread ids a caller may post: the ids of the last getBestThreads response,
\* 0 (never issued) and 1 (the first id issued: current after the first
\* getBestThreads, out of date after the second)
ThreadIDInputs == Range(serializedThreadIDs) \cup {0, 1}

\* Knot ids a caller may post: every id handed out so far, and the next one
KnotIDInputs == 0..knotCounter

\* a request while the global `backend` is still None: backend.<attr> raises
\* AttributeError, and nothing is there to change
NoBackend(op, c, arg, status) ==
    /\ response' = Response(op, c, arg, status, <<>>)
    /\ UNCHANGED << backendVars, ctrlVars, heapVars, historyVars >>

\* POST /input-recording
server_inputRecording(c, mbid) ==
    /\ LET startingRec == inputRecording(mbid)
       IN  IF ~haveBackend
           THEN \* the except block's backend.haveStartingRec = False raises
                \* again: the request fails
                NoBackend("inputRecording", c, mbid, "500")
           ELSE IF startingRec = NoRow
           THEN \* run raised: the handler stores haveStartingRec = False
                /\ haveStartingRec' = FALSE
                /\ response' = Response("inputRecording", c, mbid,
                                        "Wrong MBID", <<>>)
                /\ UNCHANGED << possibleThreadsPerThreadType,
                                rankedThreadsPerThreadType,
                                allowedThreadTypes, threadCounter,
                                knotCounter, haveBestThreads, bestThreads,
                                ctrlVars, heapVars, historyVars >>
           ELSE /\ run(startingRec)
                /\ haveStartingRec' = TRUE
                /\ response' = Response("inputRecording", c, mbid, "ok", <<>>)
    /\ UNCHANGED << haveBackend, inited >>

\* GET /get-best-threads
server_getBestThreads(c) ==
    /\ IF ~haveBackend
       THEN NoBackend("getBestThreads", c, "", "AttributeError")
       ELSE IF ~haveCtrl
       THEN \* backend.ctrl does not exist: AttributeError, caught
            /\ response' = Response("getBestThreads", c, "", "AttributeError",
                                    <<>>)
            /\ UNCHANGED << backendVars, ctrlVars, heapVars, historyVars >>
       ELSE /\ updateBestThreads
            /\ staleThreadIDs' = staleThreadIDs \cup Range(serializedThreadIDs)
            /\ response' = Response("getBestThreads", c, "", "ok",
                                    serializedThreadIDs')
            /\ UNCHANGED haveStartingRec
    /\ UNCHANGED << haveBackend, inited >>

\* POST /follow-thread
server_followThread(c, threadID) ==
    /\ IF ~haveBackend
       THEN NoBackend("followThread", c, threadID, "AttributeError")
       ELSE IF ~haveBestThreads
       THEN \* backend.bestThreads does not exist: AttributeError, caught
            /\ response' = Response("followThread", c, threadID,
                                    "AttributeError", <<>>)
            /\ UNCHANGED << backendVars, ctrlVars, heapVars, historyVars >>
       ELSE IF findThread(threadID) = 0
       THEN /\ response' = Response("followThread", c, threadID,
                                    "Wrong Thread ID", <<>>)
            /\ UNCHANGED << backendVars, ctrlVars, heapVars, historyVars >>
       ELSE /\ followThread(bestThreads[findThread(threadID)])
            /\ response' = Response("followThread", c, threadID, "ok", <<>>)
            /\ UNCHANGED haveStartingRec
    /\ UNCHANGED << haveBackend, inited >>

\* POST /get-visited-knots
server_getVisitedKnots(c) ==
    /\ IF ~haveBackend \/ ~haveCtrl
       THEN \* not inside a try block: the request fails
            response' = Response("getVisitedKnots", c, "", "500", <<>>)
       ELSE response' = Response("getVisitedKnots", c, "", "ok",
                                 listVisitedKnots)
    /\ UNCHANGED << haveBackend, backendVars, ctrlVars, heapVars,
                    historyVars, inited >>

\* variant of server_moveCurrentKnot: moving back to a Knot forgets the
\* Knots visited after it
server_moveCurrentKnot_rewind(c, knotID) ==
    /\ IF ~haveBackend \/ ~haveCtrl
       THEN /\ response' = Response("moveCurrentKnot", c, knotID,
                                    "AttributeError", <<>>)
            /\ UNCHANGED ctrlVars
       ELSE IF findKnot(knotID) = 0
       THEN /\ response' = Response("moveCurrentKnot", c, knotID,
                                    "Bad Knot ID", <<>>)
            /\ UNCHANGED ctrlVars
       ELSE /\ currentKnot' = knots[findKnot(knotID)]
            /\ knots' = SubSeq(knots, 1, findKnot(knotID))
            /\ response' = Response("moveCurrentKnot", c, knotID, "ok", <<>>)
            /\ UNCHANGED << haveCtrl, startKnot, threads >>
    /\ UNCHANGED << haveBackend, backendVars, heapVars, historyVars, inited >>

\* POST /move-current-knot
server_moveCurrentKnot(c, knotID) ==
    /\ IF ~haveBackend \/ ~haveCtrl
       THEN \* backend or backend.ctrl does not exist: AttributeError, caught
            /\ response' = Response("moveCurrentKnot", c, knotID,
                                    "AttributeError", <<>>)
            /\ UNCHANGED ctrlVars
       ELSE IF findKnot(knotID) = 0
       THEN /\ response' = Response("moveCurrentKnot", c, knotID,
                                    "Bad Knot ID", <<>>)
            /\ UNCHANGED ctrlVars
       ELSE /\ currentKnot' = knots[findKnot(knotID)]
            /\ response' = Response("moveCurrentKnot", c, knotID, "ok", <<>>)
            /\ UNCHANGED << haveCtrl, startKnot, knots, threads >>
    /\ UNCHANGED << haveBackend, backendVars, heapVars, historyVars, inited >>

\* GET /: backend = Ariadne.AriadneBackend()
server_init(c) ==
    /\ haveBackend' = TRUE
    /\ possibleThreadsPerThreadType' = 1
    /\ rankedThreadsPerThreadType' = 1
    /\ allowedThreadTypes' = ThreadSubclasses
    /\ haveStartingRec' = FALSE
    /\ threadCounter' = 0
    /\ knotCounter' = 0
    /\ haveBestThreads' = FALSE
    /\ bestThreads' = <<>>
    /\ haveCtrl' = FALSE
    /\ startKnot' = None
    /\ currentKnot' = None
    /\ knots' = <<>>
    /\ threads' = <<>>
    /\ knotHeap' = EmptyHeap
    /\ threadHeap' = EmptyHeap
    /\ nextAddr' = 0
    /\ staleThreadIDs' = {}
    /\ knotIDLog' = {}
    /\ threadIDLog' = {}
    /\ inited' = inited \cup {c}
    /\ response' = Response("init", c, "", "ok", <<>>)

\* ---------------------------------------------------------- specifications
\* One session: a single caller of a backend that '/' has constructed
Init ==
    /\ haveBackend = TRUE
    /\ AriadneBackend_init
    /\ inited = {"c1"}
    /\ response = Response("init", "c1", "", "ok", <<>>)

\* the exploration stops handing out ids at the bounds: a start or a follow
\* that will succeed is taken only while knotCounter is below its bound, a
\* getBestThreads that will succeed only while threadCounter is below its
\* bound; requests that fail are taken at any time
StartWithin(mbid, maxKnotCounter) ==
    (haveBackend /\ inputRecording(mbid) # NoRow)
        => knotCounter < maxKnotCounter

RefreshWithin(maxThreadCounter) ==
    (haveBackend /\ haveCtrl) => threadCounter < maxThreadCounter

FollowWithin(threadID, maxKnotCounter) ==
    (haveBackend /\ haveBestThreads /\ findThread(threadID) # 0)
        => knotCounter < maxKnotCounter

Next ==
    \E c \in OneCaller :
        \/ \E mbid \in StartRefs :
               /\ StartWithin(mbid, MaxKnotCounter)
               /\ server_inputRecording(c, mbid)
        \/ /\ RefreshWithin(MaxThreadCounter)
           /\ server_getBestThreads(c)
        \/ \E threadID \in ThreadIDInputs :
               /\ FollowWithin(threadID, MaxKnotCounter)
               /\ server_followThread(c, threadID)
        \/ server_getVisitedKnots(c)
        \/ \E knotID \in KnotIDInputs :
               server_moveCurrentKnot(c, knotID)

Spec == Init /\ [][Next]_vars

\* One session on a backend constructed with other arguments than the
\* defaults: one allowed Thread type, and any of the numbers of possible and
\* of ranked Threads per type up to the bounds.  The caller starts one
\* exploration (Spec covers a second start on the same backend).
Configurations ==
    [possible : 1..MaxPossibleThreads, ranked : 1..MaxRankedThreads,
     allowed : { <<tType>> : tType \in Range(ThreadSubclasses) }]

InitConfigured ==
    /\ haveBackend = TRUE
    /\ \E cfg \in Configurations :
           AriadneBackend_initWith(cfg.possible, cfg.ranked, cfg.allowed)
    /\ inited = {"c1"}
    /\ response = Response("init", "c1", "", "ok", <<>>)

NextConfigured ==
    \E c \in OneCaller :
        \/ \E mbid \in StartRefs :
               /\ ~haveCtrl
               /\ StartWithin(mbid, MaxConfiguredKnotCounter)
               /\ server_inputRecording(c, mbid)
        \/ /\ RefreshWithin(MaxConfiguredThreadCounter)
           /\ server_getBestThreads(c)
        \/ \E threadID \in ThreadIDInputs :
               /\ FollowWithin(threadID, MaxConfiguredKnotCounter)
               /\ server_followThread(c, threadID)
        \/ server_getVisitedKnots(c)
        \/ \E knotID \in KnotIDInputs :
               server_moveCurrentKnot(c, knotID)

SpecConfigured == InitConfigured /\ [][NextConfigured]_vars

\* One long exploration: a backend constructed for
\* ThreadByGroupWithMembersInCommon only, with one possible and one ranked
\* Thread, and a caller who starts once
InitWalk ==
    /\ haveBackend = TRUE
    /\ AriadneBackend_initWith(1, 1, << "ThreadByGroupWithMembersInCommon" >>)
    /\ inited = {"c1"}
    /\ response = Response("init", "c1", "", "ok", <<>>)

NextWalk ==
    \E c \in OneCaller :
        \/ \E mbid \in StartRefs :
               /\ ~haveCtrl
               /\ StartWithin(mbid, MaxWalkKnotCounter)
               /\ server_inputRecording(c, mbid)
        \/ /\ RefreshWithin(MaxWalkThreadCounter)
           /\ server_getBestThreads(c)
        \/ \E threadID \in ThreadIDInputs :
               /\ FollowWithin(threadID, MaxWalkKnotCounter)
               /\ server_followThread(c, threadID)
        \/ server_getVisitedKnots(c)
        \/ \E knotID \in KnotIDInputs :
               server_moveCurrentKnot(c, knotID)

SpecWalk == InitWalk /\ [][NextWalk]_vars

\* One session per way of restricting the Thread types: a backend constructed
\* for one Thread type only, or for all of them, with one possible and one
\* ranked Thread per type, and a caller who starts once, at any recording of
\* the database
ProviderRefs == Range(RecordingTable) \cup {"no-such-gid"}

StrategyConfigurations ==
    { <<tType>> : tType \in Range(ThreadSubclasses) } \cup { ThreadSubclasses }

InitStrategies ==
    /\ haveBackend = TRUE
    /\ \E allowed \in StrategyConfigurations :
           AriadneBackend_initWith(1, 1, allowed)
    /\ inited = {"c1"}
    /\ response = Response("init", "c1", "", "ok", <<>>)

NextStrategies ==
    \E c \in OneCaller :
        \/ \E mbid \in ProviderRefs :
               /\ ~haveCtrl
               /\ StartWithin(mbid, MaxStrategiesKnotCounter)
               /\ server_inputRecording(c, mbid)
        \/ /\ RefreshWithin(MaxStrategiesThreadCounter)
           /\ server_getBestThreads(c)
        \/ \E threadID \in ThreadIDInputs :
               /\ FollowWithin(threadID, MaxStrategiesKnotCounter)
               /\ server_followThread(c, threadID)
        \/ server_getVisitedKnots(c)
        \/ \E knotID \in KnotIDInputs :
               server_moveCurrentKnot(c, knotID)

SpecStrategies == InitStrategies /\ [][NextStrategies]_vars

\* One session on a backend constructed for ThreadByGroupWithMembersInCommon
\* only, whose caller starts at the default recording (of a Group) or at a
\* recording of a Person, and may start again
GroupsOnlyRefs == {"default", "R3", "no-such-gid"}

InitGroupsOnly ==
    /\ haveBackend = TRUE
    /\ AriadneBackend_initWith(1, 1, << "ThreadByGroupWithMembersInCommon" >>)
    /\ inited = {"c1"}
    /\ response = Response("init", "c1", "", "ok", <<>>)

NextGroupsOnly ==
    \E c \in OneCaller :
        \/ \E mbid \in GroupsOnlyRefs :
               /\ StartWithin(mbid, MaxGroupsOnlyKnotCounter)
               /\ server_inputRecording(c, mbid)
        \/ /\ RefreshWithin(MaxGroupsOnlyThreadCounter)
           /\ server_getBestThreads(c)
        \/ \E threadID \in ThreadIDInputs :
               /\ FollowWithin(threadID, MaxGroupsOnlyKnotCounter)
               /\ server_followThread(c, threadID)
        \/ server_getVisitedKnots(c)
        \/ \E knotID \in KnotIDInputs :
               server_moveCurrentKnot(c, knotID)

SpecGroupsOnly == InitGroupsOnly /\ [][NextGroupsOnly]_vars

\* The server as deployed: one global backend, requests of two callers, and
\* '/' constructing a new backend whenever a caller requests it
InitServer ==
    /\ haveBackend = FALSE
    /\ AriadneBackend_init
    /\ inited = {}
    /\ response = Response("none", "c1", "", "ok", <<>>)

NextServer ==
    \E c \in TwoCallers :
        \/ server_init(c)
        \/ \E mbid \in StartRefs :
               /\ StartWithin(mbid, MaxKnotCounter)
               /\ server_inputRecording(c, mbid)
        \/ /\ RefreshWithin(MaxThreadCounter)
           /\ server_getBestThreads(c)
        \/ \E threadID \in ThreadIDInputs :
               /\ FollowWithin(threadID, MaxKnotCounter)
               /\ server_followThread(c, threadID)
        \/ server_getVisitedKnots(c)
        \/ \E knotID \in KnotIDInputs :
               server_moveCurrentKnot(c, knotID)

SpecServer == InitServer /\ [][NextServer]_vars

\* ------------------------------------------------------------ properties
\* the state a session consists of: the explicit graph, the candidate
\* cache, the counters, and the objects they refer to
sessionVars == << backendVars, ctrlVars, heapVars >>

\* the Knots from Knot a up its prevKnot pointers, a first; the walk ends at
\* a Knot without a parent (or when fuel runs out: the heap has nextAddr
\* cells, so that a longer walk would be a cycle)
RECURSIVE ParentChain(_, _)
ParentChain(a, fuel) ==
    IF knotHeap[a].prevKnot = None \/ fuel = 0 THEN <<a>>
    ELSE <<a>> \o ParentChain(knotHeap[a].prevKnot, fuel - 1)

\* the Thread a successful followThread(threadID) follows
chosenThread(threadID) == bestThreads[findThread(threadID)]

\* C1: every visited Knot other than the start Knot has an inbound Thread
\* recorded on it, and that Thread leads to that Knot, whichever strategy
\* made the Thread.
C1_VisitedKnotsHaveInboundThread ==
    haveCtrl =>
        \A i \in 1..Len(knots) :
            knots[i] # startKnot =>
                /\ knotHeap[knots[i]].inThread # None
                /\ threadHeap[knotHeap[knots[i]].inThread].toKnot = knots[i]

\* C2: from every visited Knot the parent pointers lead to the session's
\* start Knot, through visited Knots only and through no Knot twice.
C2_ParentChainReachesStart ==
    haveCtrl =>
        \A i \in 1..Len(knots) :
            LET chain == ParentChain(knots[i], nextAddr)
            IN  /\ chain[Len(chain)] = startKnot
                /\ \A j \in 1..Len(chain) : chain[j] \in Range(knots)
                /\ \A j, l \in 1..Len(chain) : j # l => chain[j] # chain[l]

\* C3: no Knot occurs twice in visitedKnots, and the ids that
\* getVisitedKnots reports are pairwise distinct.
C3_VisitedKnotsDistinct ==
    \A i, j \in 1..Len(knots) :
        i # j => /\ knots[i] # knots[j]
                 /\ listVisitedKnots[i] # listVisitedKnots[j]

\* C4: a follow of a candidate whose fromKnot is not the current Knot fails
\* and changes nothing.
C4_FollowFromOtherKnotFails ==
    [][ ( /\ response'.op = "followThread"
          /\ haveBackend /\ haveBestThreads
          /\ findThread(response'.arg) # 0
          /\ threadHeap[chosenThread(response'.arg)].fromKnot # currentKnot )
        => ( /\ response'.status # "ok"
             /\ UNCHANGED sessionVars ) ]_vars

\* C5: a Thread id returned by a getBestThreads call before the latest one
\* is the id of no Thread of the candidate cache, so that followThread
\* rejects it.
C5_StaleThreadIDsRejected ==
    \A id \in staleThreadIDs : findThread(id) = 0

\* C5 witness: after two getBestThreads calls that both returned a Thread of
\* the same type from the same Knot to the same recording, a follow with the
\* first call's id was rejected.
C5_Witness ==
    /\ response.op = "followThread"
    /\ response.status = "Wrong Thread ID"
    /\ response.arg \in staleThreadIDs
    /\ \E old \in DOMAIN threadHeap : \E i \in 1..Len(bestThreads) :
          LET new == bestThreads[i]
          IN  /\ threadHeap[old].id = response.arg
              /\ old # new
              /\ threadHeap[old].type = threadHeap[new].type
              /\ threadHeap[old].fromKnot = threadHeap[new].fromKnot
              /\ knotHeap[threadHeap[old].toKnot].rec
                     = knotHeap[threadHeap[new].toKnot].rec

\* C6: neither counter ever decreases, no Knot id is given to two
\* different Knots and no Thread id to two different Threads.
C6_CountersIncreaseIDsNeverReused ==
    [][ /\ knotCounter' >= knotCounter
        /\ threadCounter' >= threadCounter
        /\ \A p, q \in knotIDLog' : p[1] = q[1] => p[2] = q[2]
        /\ \A p, q \in threadIDLog' : p[1] = q[1] => p[2] = q[2] ]_vars

\* C7: a follow with an id that is not among the ids of the latest
\* getBestThreads result is answered with the error 'Wrong Thread ID' and
\* changes nothing of the session.
C7_UnknownThreadIDChangesNothing ==
    [][ ( /\ response'.op = "followThread"
          /\ haveBackend /\ haveBestThreads
          /\ response'.arg \notin Range(serializedThreadIDs) )
        => ( /\ response'.status = "Wrong Thread ID"
             /\ UNCHANGED sessionVars ) ]_vars

\* C7 witness: such a follow was rejected on a session that has candidates
\* and has already followed a Thread.
C7_Witness ==
    /\ response.op = "followThread"
    /\ response.status = "Wrong Thread ID"
    /\ response.arg \notin Range(serializedThreadIDs)
    /\ bestThreads # <<>>
    /\ Len(knots) > 1

\* C8: once both callers have requested init, no request of one caller
\* (start, refresh, follow, jump) changes the session of the other caller.
\* The server keeps one global backend: it is the session of every caller.
C8_SessionsIsolated ==
    [][ \A c \in TwoCallers :
          ( /\ inited = TwoCallers
            /\ response'.caller # c
            /\ response'.op # "init" )
          => UNCHANGED sessionVars ]_vars

\* C9: a successful follow appends the chosen Thread and its toKnot, makes
\* that Knot current with an id no Knot was given before, and every Knot
\* visited before keeps its position and its id.
C9_FollowAppendsFreshKnot ==
    [][ ( /\ response'.op = "followThread"
          /\ response'.status = "ok" )
        => LET thread == chosenThread(response'.arg)
               toKnot == threadHeap[thread].toKnot
           IN  /\ knots' = Append(knots, toKnot)
               /\ threads' = Append(threads, thread)
               /\ currentKnot' = toKnot
               /\ knotHeap'[toKnot].id \notin { p[1] : p \in knotIDLog }
               /\ Len(knots') = Len(knots) + 1
               /\ \A i \in 1..Len(knots) :
                     /\ knots'[i] = knots[i]
                     /\ knotHeap'[knots[i]].id = knotHeap[knots[i]].id ]_vars

\* C10: right after a successful start the session has one visited Knot,
\* the root: id 0, no inbound Thread, no parent, the recording asked for;
\* it is the current Knot and no Thread has been followed.
C10_StartState ==
    ( response.op = "inputRecording" /\ response.status = "ok" ) =>
        /\ haveCtrl
        /\ knots = <<startKnot>>
        /\ currentKnot = startKnot
        /\ threads = <<>>
        /\ knotHeap[startKnot].id = 0
        /\ knotHeap[startKnot].inThread = None
        /\ knotHeap[startKnot].prevKnot = None
        /\ knotHeap[startKnot].rec = inputRecording(response.arg)

\* C10 witness: a start on a session that was already exploring (it has
\* followed a Thread, and knotCounter has moved on).
C10_Witness ==
    /\ response.op = "inputRecording"
    /\ response.status = "ok"
    /\ bestThreads # <<>>
    /\ \E a \in DOMAIN knotHeap : knotHeap[a].id > 0

\* the Threads that updateBestThreads discovers from the current Knot and
\* hands to rank: the cells [addr, thread, toKnot] of every applicable type
possibleThreadsNow ==
    LET k == knotHeap[currentKnot]
        possibleThreads ==
            getAllPossibleThreads(
                getApplicableThreadTypes(allowedThreadTypes, k),
                possibleThreadsPerThreadType, currentKnot, k, nextAddr)
    IN  Flatten([i \in 1..Len(possibleThreads) |-> possibleThreads[i].threads])

\* the positions of the new candidate list that hold a Thread of this type
\* and connecting artist (NoRow for the types that have none)
rankedPositions(tType, artist) ==
    { i \in 1..Len(bestThreads') :
        /\ threadHeap'[bestThreads'[i]].type = tType
        /\ threadHeap'[bestThreads'[i]].artist = artist }

\* C11: a start with a gid of no recording is answered with the error
\* 'Wrong MBID'; the controller, the Knots and Threads, the candidate cache
\* and both counters stay as they were.
C11_UnresolvedStartChangesNothing ==
    [][ ( /\ response'.op = "inputRecording"
          /\ haveBackend
          /\ response'.arg # "default"
          /\ getRecordingByGID(response'.arg) = NoRow )
        => ( /\ response'.status = "Wrong MBID"
             /\ UNCHANGED << ctrlVars, heapVars, knotCounter, threadCounter,
                             haveBestThreads, bestThreads >> ) ]_vars

\* C11 witness: such a start was refused on a session that is exploring and
\* holds candidates.
C11_Witness ==
    /\ response.op = "inputRecording"
    /\ response.status = "Wrong MBID"
    /\ Len(knots) > 1
    /\ bestThreads # <<>>

\* C12: a jump to an id that was ever stored into a Knot of this session
\* succeeds and makes a visited Knot that was given this id current; a jump
\* to any other id is answered 'Bad Knot ID' and changes nothing.
C12_JumpToEveryAllocatedID ==
    [][ ( /\ response'.op = "moveCurrentKnot"
          /\ haveBackend /\ haveCtrl )
        => IF response'.arg \in { p[1] : p \in knotIDLog }
           THEN /\ response'.status = "ok"
                /\ currentKnot' \in Range(knots)
                /\ << response'.arg, currentKnot' >> \in knotIDLog
           ELSE /\ response'.status = "Bad Knot ID"
                /\ UNCHANGED sessionVars ]_vars

\* C13: a jump changes nothing but currentKnot, whether it succeeds or not:
\* the visited Knots and their ids, the followed Threads, the candidate
\* cache and both counters stay; a jump to the start Knot's id makes the
\* start Knot current.
C13_JumpChangesOnlyCurrentKnot ==
    [][ response'.op = "moveCurrentKnot"
        => ( /\ UNCHANGED << backendVars, heapVars, haveCtrl, startKnot,
                             knots, threads >>
             /\ Len(listVisitedKnots') = Len(listVisitedKnots)
             /\ ( /\ response'.status = "ok"
                  /\ response'.arg = knotHeap[startKnot].id )
                => currentKnot' = startKnot ) ]_vars

\* C13 witness: after a start and three rounds of getBestThreads and
\* followThread, each from the Knot the round before reached, a jump to id 0
\* has made the start Knot current and four Knots are visited.
C13_Witness ==
    /\ response.op = "moveCurrentKnot"
    /\ response.status = "ok"
    /\ response.arg = 0
    /\ currentKnot = startKnot
    /\ Len(threads) = 3
    /\ Len(listVisitedKnots) = 4
    /\ \A i \in 1..3 :
          /\ threadHeap[threads[i]].fromKnot = knots[i]
          /\ threadHeap[threads[i]].toKnot = knots[i + 1]

\* C14: a successful getBestThreads replaces the candidate cache and gives
\* its Threads ids above the old threadCounter; the visited Knots, the
\* followed Threads, the current Knot and knotCounter stay, and the toKnot
\* of every candidate has the id -1.
C14_RefreshCommitsNothing ==
    [][ ( /\ response'.op = "getBestThreads"
          /\ response'.status = "ok" )
        => ( /\ UNCHANGED << ctrlVars, knotCounter >>
             /\ \A a \in Range(knots) : knotHeap'[a] = knotHeap[a]
             /\ \A i \in 1..Len(bestThreads') :
                   LET thread == threadHeap'[bestThreads'[i]]
                   IN  /\ thread.id > threadCounter
                       /\ thread.id <= threadCounter'
                       /\ knotHeap'[thread.toKnot].id = UnassignedID ) ]_vars

\* C14 witness: a getBestThreads on a session that has followed a Thread,
\* replacing an earlier candidate list.
C14_Witness ==
    /\ response.op = "getBestThreads"
    /\ response.status = "ok"
    /\ Len(knots) > 1
    /\ bestThreads # <<>>
    /\ staleThreadIDs # {}

\* C15: the list that rank returns to updateBestThreads holds only Threads
\* it was given, and at most rankedThreadsPerThreadType entries per Thread
\* type; for ThreadBySameArtist at most that many per connecting artist.
C15_RankWithinInputAndLimit ==
    [][ ( /\ response'.op = "getBestThreads"
          /\ response'.status = "ok" )
        => ( /\ \A i \in 1..Len(bestThreads') :
                   \E cell \in Range(possibleThreadsNow) :
                       /\ cell.addr = bestThreads'[i]
                       /\ cell.thread =
                              [threadHeap'[bestThreads'[i]]
                                   EXCEPT !.id = UnassignedID]
             /\ \A cell \in Range(possibleThreadsNow) :
                   Cardinality(rankedPositions(cell.thread.type,
                                               cell.thread.artist))
                       <= rankedThreadsPerThreadType ) ]_vars

\* C15 witness: two Threads per connecting artist were asked for, from a
\* Knot credited to two artists, and four were returned.
C15_Witness ==
    /\ response.op = "getBestThreads"
    /\ response.status = "ok"
    /\ rankedThreadsPerThreadType = 2
    /\ allowedThreadTypes = << "ThreadBySameArtist" >>
    /\ Len(knotHeap[currentKnot].creditedArtists) = 2
    /\ Len(bestThreads) = 4

\* C16: the list that rank returns holds no Thread twice, and has no more
\* entries than rank was given Threads.
C16_RankWithoutReplacement ==
    [][ ( /\ response'.op = "getBestThreads"
          /\ response'.status = "ok" )
        => ( /\ \A i, j \in 1..Len(bestThreads') :
                   i # j => bestThreads'[i] # bestThreads'[j]
             /\ Len(bestThreads') <= Len(possibleThreadsNow) ) ]_vars

\* C17: with ThreadBySameArtist the only allowed type and a current Knot
\* credited to one artist, getBestThreads returns at most
\* possibleThreadsPerThreadType candidates, each with that artist as its
\* connecting artist.
C17_SameArtistAtMostLimit ==
    [][ ( /\ response'.op = "getBestThreads"
          /\ response'.status = "ok"
          /\ allowedThreadTypes = << "ThreadBySameArtist" >>
          /\ Len(knotHeap[currentKnot].creditedArtists) = 1 )
        => ( /\ Len(response'.ids) <= possibleThreadsPerThreadType
             /\ \A i \in 1..Len(bestThreads') :
                   threadHeap'[bestThreads'[i]].artist
                       = knotHeap[currentKnot].creditedArtists[1] ) ]_vars

\* C18: a followed ThreadBySameArtist leads to a Knot whose recording is not
\* the recording of the Knot the Thread starts from.
C18_SameArtistLeavesRecording ==
    [][ ( /\ response'.op = "followThread"
          /\ response'.status = "ok"
          /\ threadHeap[chosenThread(response'.arg)].type
                 = "ThreadBySameArtist" )
        => knotHeap'[currentKnot'].rec
               # knotHeap[threadHeap[chosenThread(response'.arg)].fromKnot].rec
      ]_vars

\* C19: for every visited Knot and every number of recordings per artist,
\* each Thread that ThreadBySameArtist.getAllPossibleThreads makes from the
\* Knot leads to a Knot whose credited artists include the Thread's artist.
C19_SameArtistCreditedOnDestination ==
    haveCtrl =>
        \A a \in Range(knots) :
            \A select \in (1..MaxPossibleThreads) \cup {ALL} :
                \A cell \in Range(getAllPossibleThreads_SameArtist(
                                      a, knotHeap[a], select, nextAddr)) :
                    /\ cell.thread.type = "ThreadBySameArtist"
                    /\ Contains(cell.toKnot.creditedArtists,
                                cell.thread.artist)

\* C19 witness: from a visited Knot a Thread is made to a recording with two
\* credited artists, the second of them the connecting artist.
C19_Witness ==
    /\ haveCtrl
    /\ Len(knots) > 1
    /\ \E a \in Range(knots) :
          \E cell \in Range(getAllPossibleThreads_SameArtist(
                                a, knotHeap[a], ALL, nextAddr)) :
              /\ Len(cell.toKnot.creditedArtists) = 2
              /\ cell.thread.artist = cell.toKnot.creditedArtists[2]

\* C20: for every visited Knot, each Thread that
\* ThreadByGroupWithMembersInCommon.getAllPossibleThreads makes from it has
\* a member linked to both its groups, a from-group that is a Group among
\* the Knot's credited artists, and a to-group other than the from-group.
C20_GroupsShareTheMember ==
    haveCtrl =>
        \A a \in Range(knots) :
            \A select \in (1..MaxPossibleThreads) \cup {ALL} :
                \A cell \in Range(getAllPossibleThreads_GroupWithMembersInCommon(
                                      a, knotHeap[a], select, nextAddr)) :
                    LET thread == cell.thread
                    IN  /\ Contains(MemberOfBandLinks,
                                    << thread.memberInCommon, thread.fromGroup >>)
                        /\ Contains(MemberOfBandLinks,
                                    << thread.memberInCommon, thread.toGroup >>)
                        /\ isGroup(thread.fromGroup)
                        /\ Contains(knotHeap[a].creditedArtists,
                                    thread.fromGroup)
                        /\ thread.toGroup # thread.fromGroup
                        /\ Contains(cell.toKnot.creditedArtists,
                                    thread.toGroup)

\* C20 witness: such a Thread has been followed, and from the Knot it led to
\* a Thread back to the first group is made.
C20_Witness ==
    /\ haveCtrl
    /\ Len(knots) > 1
    /\ threadHeap[threads[1]].type = "ThreadByGroupWithMembersInCommon"
    /\ \E cell \in Range(getAllPossibleThreads_GroupWithMembersInCommon(
                            currentKnot, knotHeap[currentKnot], ALL,
                            nextAddr)) :
          /\ cell.thread.fromGroup = threadHeap[threads[1]].toGroup
          /\ cell.thread.toGroup = threadHeap[threads[1]].fromGroup

\* C21: on a backend restricted to ThreadByGroupWithMembersInCommon, with a
\* current Knot whose only credited artist is a Person, isApplicable is
\* false and getBestThreads succeeds: it returns the empty list and leaves
\* the candidate cache empty.
C21_PersonKnotGivesNoGroupCandidates ==
    [][ ( /\ response'.op = "getBestThreads"
          /\ haveBackend /\ haveCtrl
          /\ allowedThreadTypes = << "ThreadByGroupWithMembersInCommon" >>
          /\ Len(knotHeap[currentKnot].creditedArtists) = 1
          /\ isPerson(knotHeap[currentKnot].creditedArtists[1]) )
        => ( /\ ~ThreadType_isApplicable("ThreadByGroupWithMembersInCommon",
                                         knotHeap[currentKnot])
             /\ response'.status = "ok"
             /\ response'.ids = <<>>
             /\ haveBestThreads'
             /\ bestThreads' = <<>> ) ]_vars

\* C21 witness: such a getBestThreads has returned the empty list on a
\* backend that had returned candidates before (from a Knot of a Group).
C21_Witness ==
    /\ response.op = "getBestThreads"
    /\ response.status = "ok"
    /\ response.ids = <<>>
    /\ bestThreads = <<>>
    /\ allowedThreadTypes = << "ThreadByGroupWithMembersInCommon" >>
    /\ Len(knotHeap[currentKnot].creditedArtists) = 1
    /\ isPerson(knotHeap[currentKnot].creditedArtists[1])
    /\ staleThreadIDs # {}

\* the list that AriadneController.getAllPossibleThreads returns to
\* updateBestThreads from the current Knot: one {'type', 'threads'} entry per
\* applicable Thread type
discoveredNow ==
    LET k == knotHeap[currentKnot]
    IN  getAllPossibleThreads(
            getApplicableThreadTypes(allowedThreadTypes, k),
            possibleThreadsPerThreadType, currentKnot, k, nextAddr)

\* the positions of the new candidate list that hold a Thread of this type
positionsOfType(tType) ==
    { i \in 1..Len(bestThreads') : threadHeap'[bestThreads'[i]].type = tType }

\* C22: getBestThreads on an exploring session succeeds whatever the Thread
\* types find.  Every applicable type has its entry in the discovered list,
\* empty or not; a type with an empty entry has no Thread in the returned
\* list, every type with Threads has at least one, and the list is empty
\* when every entry is.
C22_EmptyStrategiesSkipped ==
    [][ ( /\ response'.op = "getBestThreads"
          /\ haveBackend /\ haveCtrl )
        => LET applicable ==
                   getApplicableThreadTypes(allowedThreadTypes,
                                            knotHeap[currentKnot])
               discovered == discoveredNow
           IN  /\ response'.status = "ok"
               /\ Len(discovered) = Len(applicable)
               /\ \A i \in 1..Len(discovered) :
                     /\ discovered[i].type = applicable[i]
                     /\ IF discovered[i].threads = <<>>
                        THEN positionsOfType(applicable[i]) = {}
                        ELSE positionsOfType(applicable[i]) # {}
               /\ \A i \in 1..Len(bestThreads') :
                     \E j \in 1..Len(discovered) :
                         /\ discovered[j].threads # <<>>
                         /\ discovered[j].type
                                = threadHeap'[bestThreads'[i]].type
               /\ Len(response'.ids) = Len(bestThreads') ]_vars

\* C22 witness: with every Thread type allowed, getBestThreads has returned
\* Threads of two types from a Knot where a type between them in the list of
\* applicable types found nothing.
C22_Witness ==
    /\ response.op = "getBestThreads"
    /\ response.status = "ok"
    /\ allowedThreadTypes = ThreadSubclasses
    /\ Len(bestThreads) >= 2
    /\ threadHeap[bestThreads[1]].fromKnot = currentKnot
    /\ threadHeap[bestThreads[1]].type = "ThreadBySameArtist"
    /\ threadHeap[bestThreads[Len(bestThreads)]].type
           = "ThreadByArtistWithFestivalInCommon"
    /\ ThreadType_isApplicable("ThreadByGroupWithMembersInCommon",
                               knotHeap[currentKnot])
    /\ \A i \in 1..Len(bestThreads) :
          threadHeap[bestThreads[i]].type # "ThreadByGroupWithMembersInCommon"

\* C23: no ThreadByGroupWithMembersInCommon that getBestThreads returns has
\* a to-group among the credited artists of the Knot it starts from, and no
\* ThreadByArtistWithFestivalInCommon it returns has a to-artist among them,
\* however many artists the Knot is credited to.
C23_NoSelfLoops ==
    [][ ( /\ response'.op = "getBestThreads"
          /\ response'.status = "ok" )
        => \A i \in 1..Len(bestThreads') :
              LET thread == threadHeap'[bestThreads'[i]]
                  fromArtists == knotHeap[thread.fromKnot].creditedArtists
              IN  /\ thread.type = "ThreadByGroupWithMembersInCommon"
                         => ~Contains(fromArtists, thread.toGroup)
                  /\ thread.type = "ThreadByArtistWithFestivalInCommon"
                         => ~Contains(fromArtists, thread.toArtist) ]_vars

\* the numbers of recordings per seed that discovery is tried with
SelectInputs == (1..MaxPossibleThreads) \cup {ALL}

\* a start or a follow has just made currentKnot the current Knot (every
\* visited Knot is first reached this way)
arrivedAtCurrentKnot ==
    /\ haveCtrl
    /\ response.status = "ok"
    /\ response.op \in {"inputRecording", "followThread"}

C25_ToGroupIsGroupOfFromPerson ==
    [][ ( /\ response'.op = "getBestThreads"
          /\ response'.status = "ok" )
        => \A i \in 1..Len(bestThreads') :
              LET thread == threadHeap'[bestThreads'[i]]
                  fromArtists == knotHeap[thread.fromKnot].creditedArtists
              IN  thread.type = "ThreadByGroupPersonIsMemberOf" =>
                      /\ Contains(getGroupsByMember(thread.fromPerson, ALL),
                                  thread.toGroup)
                      /\ \E j \in 1..Len(fromArtists) :
                            IF isSinglePersonAct(fromArtists[j])
                            THEN /\ thread.fromPerson =
                                      getPersonBySinglePersonAct(fromArtists[j])
                                 /\ thread.memberPerformsAs = fromArtists[j]
                                 /\ thread.fromPerson # fromArtists[j]
                            ELSE /\ thread.fromPerson = fromArtists[j]
                                 /\ thread.memberPerformsAs = NoRow ]_vars

\* the events that part-of links lead to from the events of S, in at most
\* `steps` steps (S included)
RECURSIVE EnclosingEvents(_, _)
EnclosingEvents(S, steps) ==
    IF steps = 0 THEN S
    ELSE EnclosingEvents(
             S \cup { l[1] : l \in { m \in Range(EventEventLinks) : m[2] \in S } },
             steps - 1)

C27_NotApplicableFindsNothing ==
    arrivedAtCurrentKnot =>
        \A tType \in Range(ThreadSubclasses) : \A select \in SelectInputs :
            ~ThreadType_isApplicable(tType, knotHeap[currentKnot])
                => ThreadType_getAllPossibleThreads(
                       tType, currentKnot, knotHeap[currentKnot], select,
                       nextAddr) = <<>>

\* C27 witness: with every Thread type allowed, getBestThreads has returned
\* candidates from a Knot credited to a single-person act that is not a
\* Person: the two types for Groups do not apply there and find nothing,
\* ThreadByGroupPersonIsMemberOf applies and has a candidate in the list.
C27_Witness ==
    /\ response.op = "getBestThreads"
    /\ response.status = "ok"
    /\ allowedThreadTypes = ThreadSubclasses
    /\ LET k == knotHeap[currentKnot]
       IN  /\ Len(k.creditedArtists) = 1
           /\ isSinglePersonAct(k.creditedArtists[1])
           /\ ~isPerson(k.creditedArtists[1])
           /\ ~ThreadType_isApplicable("ThreadByGroupWithMembersInCommon", k)
           /\ ~ThreadType_isApplicable("ThreadByGroupMemberSoloAct", k)
           /\ getAllPossibleThreads_GroupWithMembersInCommon(
                  currentKnot, k, ALL, nextAddr) = <<>>
           /\ getAllPossibleThreads_GroupMemberSoloAct(
                  currentKnot, k, ALL, nextAddr) = <<>>
    /\ \E i \in 1..Len(bestThreads) :
          /\ threadHeap[bestThreads[i]].type = "ThreadByGroupPersonIsMemberOf"
          /\ threadHeap[bestThreads[i]].fromKnot = currentKnot

\* C28: the ids of the Threads that one getBestThreads returns are pairwise
\* distinct, whatever rankedThreadsPerThreadType the backend was constructed
\* with.
C28_CandidateIDsDistinct ==
    [][ ( /\ response'.op = "getBestThreads"
          /\ response'.status = "ok" )
        => \A i, j \in 1..Len(response'.ids) :
              i # j => response'.ids[i] # response'.ids[j] ]_vars

\* the Knot without a parent that the prevKnot pointers of `heap` lead to
\* from Knot a (fuel as in ParentChain)
RECURSIVE RootOf(_, _, _)
RootOf(heap, a, fuel) ==
    IF heap[a].prevKnot = None \/ fuel = 0 THEN a
    ELSE RootOf(heap, heap[a].prevKnot, fuel - 1)

\* C29: a start on a session that is exploring begins an exploration of its
\* own.  A follow with the id of a Thread that does not start from a Knot of
\* the current exploration (a candidate issued before the latest start) is
\* refused and changes nothing, and after every step the parent pointers of
\* every visited Knot lead to the current start Knot.
C29_RestartIsIndependent ==
    [][ /\ ( /\ response'.op = "followThread"
             /\ haveBackend /\ haveBestThreads /\ haveCtrl
             /\ findThread(response'.arg) # 0
             /\ threadHeap[chosenThread(response'.arg)].fromKnot
                    \notin Range(knots) )
           => ( /\ response'.status # "ok"
                /\ UNCHANGED sessionVars )
        /\ haveCtrl'
           => \A i \in 1..Len(knots') :
                  RootOf(knotHeap', knots'[i], nextAddr') = startKnot' ]_vars

\* C30: on a session that is exploring, followedThreads has one entry fewer
\* than visitedKnots, the i-th followed Thread leads to the Knot at index i
\* of visitedKnots (counted from 0) and starts from a Knot at a smaller index.
C30_FollowedThreadsAlignWithKnots ==
    haveCtrl =>
        /\ Len(threads) = Len(knots) - 1
        /\ \A i \in 1..Len(threads) :
               /\ i + 1 <= Len(knots)
               /\ threadHeap[threads[i]].toKnot = knots[i + 1]
               /\ \E j \in 1..i :
                      threadHeap[threads[i]].fromKnot = knots[j]

====
